---- MODULE Spec2Model ----
(***************************************************************************)
(* Duplicate detection and processing-state tracking of the contract mail  *)
(* processor (Google Apps Script).                                         *)
(*                                                                         *)
(* The state is the mailbox (Gmail), the three sheets of the tracking      *)
(* spreadsheet (Content Ledger, Processing Ledger, main contract list),    *)
(* the Drive folder, the Slack channel, the position of each               *)
(* processEmails invocation, the Script Properties store with the          *)
(* operation each invocation runs on it, and the last call of              *)
(* generateContentDuplicateKey.                                            *)
(* One action models one step of processEmails: the check of a message up  *)
(* to the content check, the attachment loop, the notification, the mark,  *)
(* the thread label.                                                       *)
(***************************************************************************)
EXTENDS Integers, Sequences, FiniteSets, TLC

\* ---------------------------------------------------------------- bounds
MaxMsgs == 2        \* messages that ever arrive in the mailbox
MaxFaults == 1      \* failures of Gmail, Drive and Slack calls in a behaviour
MaxRows == 3        \* rows appended by direct calls of the Content Ledger
MaxRecipients == 2  \* distinct addresses in the To field of a message
MaxKeys == 3        \* distinct PROCESSED_MSG_ keys
MaxTime == 2        \* timestamps and processing dates range over 1..MaxTime
MaxSheetRows == 3   \* rows of the Processing Ledger handed to the cleanup
MaxOthers == 52     \* the properties that are not PROCESSED_MSG_ entries stay below
ConfiguredProperties == 44   \* such properties present when the store is first used
BatchSize == 11     \* messages waiting in the mailbox when a run starts
MaxFiles == 100     \* files with the requested name or a numbered variant of it
MaxTriggerIds == 8  \* triggers created in a behaviour

\* ------------------------------------------------------- program constants
MAX_EMAILS_PER_RUN == 10
SEARCH_THREAD_FACTOR == 3
PROPERTY_CAPACITY == 50      \* "(currentCount/50)"
NEAR_LIMIT == 48             \* currentCount >= 48
AUTO_ROTATE_COUNT == 5       \* rotateProcessedMessages(5)
DEFAULT_ROTATE_COUNT == 10   \* rotateProcessedMessages(removeCount = 10)
SAFETY_LIMIT == 100          \* while (counter < 100)

\* ------------------------------------------------------------ input space
Runners == {1, 2}                         \* invocations that may be active
Threads == {"t1", "t2"}                   \* Gmail conversations
PdfA == "a.pdf"
PdfB == "b.pdf"
PdfC == "c.pdf"
TxtX == "x.txt"
AttNames == {PdfA, PdfB, TxtX}

\* attachment lists of a message, in the order Gmail supplies them
AttLists ==
  { <<>>, <<TxtX>>, <<PdfA>>, <<TxtX, PdfA>>, <<PdfA, TxtX>>, <<PdfA, PdfB>> }

\* Drive URLs: none (null), the contract base folder, the n-th created file
NoUrl == [kind |-> "null", n |-> 0]
FolderUrl == [kind |-> "folder", n |-> 0]
FileUrl(n) == [kind |-> "file", n |-> n]

\* ---------------------------------------------------------------- helpers
Range(s) == { s[i] : i \in 1..Len(s) }

Min(a, b) == IF a < b THEN a ELSE b

\* fileName.toLowerCase().endsWith('.pdf')
isPdf(name) == name \in {PdfA, PdfB, PdfC}

\* code-unit order of the names, as Array.prototype.sort compares them
NameRank(name) ==
  CASE name = PdfA -> 1 [] name = PdfB -> 2 [] name = PdfC -> 3 [] OTHER -> 4

RECURSIVE Insert(_, _)
Insert(x, s) ==
  IF s = <<>> THEN <<x>>
  ELSE IF NameRank(x) <= NameRank(Head(s)) THEN <<x>> \o s
  ELSE <<Head(s)>> \o Insert(x, Tail(s))

\* a sort that leaves the list as it is
SortNamesKeepOrder(s) == s

RECURSIVE SortNames(_)
SortNames(s) == IF s = <<>> THEN <<>> ELSE Insert(Head(s), SortNames(Tail(s)))

\* attachments.filter(isPdf).map(getName)
pdfNamesOf(atts) == SelectSeq(atts, isPdf)

\* generateContentDuplicateKey: every modelled message carries the same
\* sender, minute and subject, so the normalised string differs only in the
\* sorted, joined PDF names; the MD5 prefix is taken as injective on them.
generateContentDuplicateKey(pdfNames) == <<"CONTENT">> \o SortNames(pdfNames)

\* ------------------------------------- generateContentDuplicateKey in full
\* Strings are sequences of characters.  Senders, subjects, dates (seconds)
\* and PDF name lists handed to the function:
Senders ==
  { <<"a", "@", "b">>, <<"A", "@", "B">>, <<" ", "a", "@", "b">>, <<"b", "@", "a">> }
Subjects ==
  { <<"a", "b">>, <<"A", " ", "b">>, <<"a", "-", "b">>, <<"b", "a">>, <<"a", "1">> }
DateInputs == { 0, 30, 59, 60, 61, 119, 120, 3600 }
NoDate == -1                       \* a missing date (null)
KeyNameLists ==
  { <<>>, <<PdfA>>, <<PdfB>>, <<PdfC>>,
    <<PdfA, PdfB>>, <<PdfB, PdfA>>, <<PdfA, PdfC>>, <<PdfC, PdfA>>,
    <<PdfB, PdfC>>, <<PdfC, PdfB>>,
    <<PdfA, PdfB, PdfC>>, <<PdfA, PdfC, PdfB>>, <<PdfB, PdfA, PdfC>>,
    <<PdfB, PdfC, PdfA>>, <<PdfC, PdfA, PdfB>>, <<PdfC, PdfB, PdfA>> }
Clock == 0..1                      \* readings of new Date().getTime()

\* a toLowerCase that leaves the letters as they are
toLowerCaseKeep(c) == c

\* String.prototype.toLowerCase on one character
toLowerCase(c) == CASE c = "A" -> "a" [] c = "B" -> "b" [] OTHER -> c

\* [a-zA-Z0-9] and [a-zA-Z0-9@.]
isAlnum(c) == c \in {"a", "b", "A", "B", "1"}
isSenderChar(c) == isAlnum(c) \/ c \in {"@", "."}

\* subject.replace(/[^a-zA-Z0-9]/g, '').toLowerCase()
subjectKey(subject) ==
  LET kept == SelectSeq(subject, isAlnum)
  IN [i \in 1..Len(kept) |-> toLowerCase(kept[i])]

\* sender.replace(/[^a-zA-Z0-9@.]/g, '').toLowerCase()
senderKey(sender) ==
  LET kept == SelectSeq(sender, isSenderChar)
  IN [i \in 1..Len(kept) |-> toLowerCase(kept[i])]

\* a rendering with hour precision
dateKeyHour(date) == date \div 3600

\* Utilities.formatDate(date, 'JST', 'yyyyMMdd_HHmm'): one rendering per
\* minute (the zone has no daylight saving time)
dateKey(date) == date \div 60

\* pdfNames.sort().join(',').replace(/[^a-zA-Z0-9.,]/g, '').toLowerCase();
\* the modelled names hold lower-case letters, digits and dots only, which
\* the replace and the toLowerCase leave as they are
pdfKey(pdfNames) == SortNames(pdfNames)

\* the caller's array after pdfNames.sort(), which sorts in place
pdfNamesAfterCall(pdfNames) == SortNames(pdfNames)

\* `${senderKey}_${dateKey}_${subjectKey}_${pdfKey}`
combinedKey(sender, date, subject, pdfNames) ==
  << senderKey(sender), dateKey(date), subjectKey(subject), pdfKey(pdfNames) >>

\* generateContentDuplicateKey(sender, date, subject, pdfNames) called when the
\* clock reads now.  The 16 characters of the MD5 digest are taken as
\* injective on the combined string; Utilities.formatDate throws on a missing
\* date, and the catch returns CONTENT_<now>.
generateContentDuplicateKeyAt(sender, date, subject, pdfNames, now) ==
  IF date = NoDate
  THEN [kind |-> "time", hashOf |-> <<>>, at |-> now]
  ELSE [kind |-> "hash", hashOf |-> combinedKey(sender, date, subject, pdfNames),
        at |-> 0]

\* no call yet
NoKeyCall ==
  [called |-> FALSE, sender |-> <<>>, date |-> 0, subject |-> <<>>,
   pdfNames |-> <<>>, pdfNamesAfter |-> <<>>, now |-> 0,
   key |-> [kind |-> "none", hashOf |-> <<>>, at |-> 0], returned |-> {}]


\* --------------------------------------------------------------- the state
VARIABLES
  mailbox,        \* Gmail: sequence of messages, the message id is the index
  labeled,        \* ids of the messages carrying the Contract_Processed label
  contentSheet,   \* Content Ledger rows   [contentKey, driveUrl]
  processedSheet, \* Processing Ledger rows [messageId, status]
  mainSheet,      \* contract list rows     [messageId, status, error]
  drive,          \* files created in the Drive folder [messageId, index, name]
  slack,          \* notifications sent     [messageId, attachments]
  run,            \* per invocation: position in processEmails and its locals
  faults,         \* failed calls of the services so far
  handed,         \* messages handed to processMessage at least once
  entered,        \* messages for which processMessage passed the pattern check
  skipped,        \* messages skipped at least once as already processed
  novel,          \* messages whose content check missed (handled as Novel)
  duplicate,      \* messages whose content check hit (handled as Duplicate)
  failed,         \* messages with a failed artifact persistence in Novel handling
  retryDue,       \* messages of failed for which a later invocation has returned
  retried,        \* messages of failed handed to processMessage again later
  props,          \* Script Properties: the PROCESSED_MSG_ entries and the others
  op,             \* per invocation: position in a Script Properties operation
  keyCall,        \* the last call of generateContentDuplicateKey and its outcome
  skipLabeled,    \* ids of the messages carrying the Contract_Skipped label
  triggers,       \* installed processEmails triggers and the stored TRIGGER_ID
  nameCall        \* the last call of ensureUniqueFilename and its outcome

vars == << mailbox, labeled, contentSheet, processedSheet,
           mainSheet, drive, slack, run, faults, handed, entered, skipped, novel, duplicate,
           failed, retryDue, retried, props, op, keyCall, skipLabeled, triggers,
           nameCall >>

toolVars == << skipLabeled, triggers, nameCall >>
auxVars == << props, op, keyCall, toolVars >>
gmailVars == << mailbox, labeled >>
sheetVars == << contentSheet, processedSheet, mainSheet >>
histVars  == << handed, entered, skipped, novel, duplicate, failed, retryDue, retried >>

MsgIds == 1..Len(mailbox)

\* A message: its conversation, its attachments, whether its subject matches
\* a configured pattern.  The attachments of a message whose subject does
\* not match are never read, so one attachment list stands for all of them.
Messages ==
  { msg \in [thread : Threads, atts : AttLists, matches : BOOLEAN] :
      ~msg.matches => msg.atts = <<>> }

\* ------------------------------------------------------------ the ledgers
\* a lookup that never matches (the scan compares another column)
checkContentDuplicateNoMatch(sheet, contentKey) ==
  [isDuplicate |-> FALSE, existingUrl |-> NoUrl]

\* a scan in which the last matching row wins
checkContentDuplicateLastMatch(sheet, contentKey) ==
  IF \E i \in 1..Len(sheet) : sheet[i].contentKey = contentKey
  THEN LET i == CHOOSE j \in 1..Len(sheet) :
                  /\ sheet[j].contentKey = contentKey
                  /\ \A k \in (j+1)..Len(sheet) : sheet[k].contentKey # contentKey
       IN [isDuplicate |-> TRUE, existingUrl |-> sheet[i].driveUrl]
  ELSE [isDuplicate |-> FALSE, existingUrl |-> NoUrl]

\* a scan that does not compare the key: the first row, if any, matches
checkContentDuplicateAnyRow(sheet, contentKey) ==
  IF sheet # <<>>
  THEN [isDuplicate |-> TRUE, existingUrl |-> sheet[1].driveUrl]
  ELSE [isDuplicate |-> FALSE, existingUrl |-> NoUrl]

\* checkContentDuplicate: linear scan of the Content Ledger, first match wins
checkContentDuplicate(sheet, contentKey) ==
  IF \E i \in 1..Len(sheet) : sheet[i].contentKey = contentKey
  THEN LET i == CHOOSE j \in 1..Len(sheet) :
                  /\ sheet[j].contentKey = contentKey
                  /\ \A k \in 1..(j-1) : sheet[k].contentKey # contentKey
       IN [isDuplicate |-> TRUE, existingUrl |-> sheet[i].driveUrl]
  ELSE [isDuplicate |-> FALSE, existingUrl |-> NoUrl]

\* a write that replaces the rows of the sheet by the new row
recordContentDuplicateReplaceAll(sheet, contentKey, driveUrl) ==
  << [contentKey |-> contentKey, driveUrl |-> driveUrl] >>

\* recordContentDuplicate: appendRow, without a lookup of its own
recordContentDuplicate(sheet, contentKey, driveUrl) ==
  Append(sheet, [contentKey |-> contentKey, driveUrl |-> driveUrl])

\* a scan that stops one row short of the last row
isMessageProcessedSkipLastRow(sheet, messageId) ==
  \E i \in 1..(Len(sheet) - 1) : sheet[i].messageId = messageId

\* isMessageProcessedInSpreadsheet: linear scan of column B (Message ID)
isMessageProcessedInSpreadsheet(sheet, messageId) ==
  \E i \in 1..Len(sheet) : sheet[i].messageId = messageId

\* the answer of the catch branch, given always: assume not processed
isMessageAlreadyProcessedAssumeNot(sheet, messageId) == FALSE

\* isMessageAlreadyProcessed: the spreadsheet alone decides; the
\* PROCESSED_MSG_ entries of the Script Properties are not consulted
isMessageAlreadyProcessed(sheet, messageId) ==
  isMessageProcessedInSpreadsheet(sheet, messageId)

\* the lookup inside its try: when the read of the sheet throws, the catch
\* blocks of both functions answer false, "assume not processed"
isMessageAlreadyProcessedTry(sheet, messageId, readThrows) ==
  IF readThrows THEN FALSE ELSE isMessageAlreadyProcessed(sheet, messageId)

\* markMessageProcessedInSpreadsheet: appendRow with the given status
markMessageProcessedInSpreadsheet(sheet, messageId, status) ==
  Append(sheet, [messageId |-> messageId, status |-> status])

\* markMessageAsProcessed: passes neither content key nor status, so the
\* default status 'Success' is written
markMessageAsProcessed(sheet, messageId) ==
  markMessageProcessedInSpreadsheet(sheet, messageId, "Success")

\* the text of a cell: a sequence of [kind, n]; the empty cell is << >>
messageIdText(messageId) == << [kind |-> "id", n |-> messageId] >>
DuplicateLink == [kind |-> "duplicate", n |-> 0]     \* 'Duplicate'

\* columns of the contract list, 0-based as values[i][c] reads them:
\* I (8) PDF direct links, J (9) status, M (12) message id, N (13) error
COL_PDF_LINKS == 8
COL_MESSAGE_ID == 12

\* values[i][column] of a row; the other columns hold texts of the mail
\* (date, sender, subject, ...), none of which is a message id
cellValue(row, column) ==
  IF column = COL_MESSAGE_ID THEN messageIdText(row.messageId)
  ELSE IF column = COL_PDF_LINKS THEN row.pdfDirectLinks
  ELSE << >>

\* addEmailRecord: appends the initial row of the contract list
addEmailRecord(sheet, messageId) ==
  Append(sheet, [messageId |-> messageId, status |-> "Processing", error |-> "",
                 pdfDirectLinks |-> << >>])

\* the first data row whose cell in the column is the message id, 0 if none
firstRowWith(sheet, column, messageId) ==
  IF \E i \in 1..Len(sheet) : cellValue(sheet[i], column) = messageIdText(messageId)
  THEN CHOOSE j \in 1..Len(sheet) :
         /\ cellValue(sheet[j], column) = messageIdText(messageId)
         /\ \A k \in 1..(j-1) : cellValue(sheet[k], column) # messageIdText(messageId)
  ELSE 0

\* updateRecordStatus: sets status and PDF links of the first row whose
\* column M is the message id
updateRecordStatus(sheet, messageId, status, pdfDirectLinks) ==
  LET i == firstRowWith(sheet, COL_MESSAGE_ID, messageId)
  IN IF i # 0
     THEN [sheet EXCEPT ![i].status = status, ![i].pdfDirectLinks = pdfDirectLinks]
     ELSE sheet

\* searchRecordByMessageId: the row (0 for null) of the first record whose
\* values[i][8] is the message id
searchRecordByMessageId(sheet, messageId) ==
  firstRowWith(sheet, COL_PDF_LINKS, messageId)

\* emailRecord.pdfDirectLinks: the links of the PDFs of attachmentInfo
\* without error, 'Duplicate' for a duplicate
RECURSIVE pdfDirectLinksOf(_)
pdfDirectLinksOf(info) ==
  IF info = << >> THEN << >>
  ELSE LET att == Head(info)
           link == IF att.kind = "duplicate" THEN << DuplicateLink >>
                   ELSE IF att.kind = "saved" THEN << att.driveUrl >>
                   ELSE << >>
       IN link \o pdfDirectLinksOf(Tail(info))

\* ------------------------------------------------------ processAttachments
\* one element of attachmentInfo
Info(name, kind, url, isDup) ==
  [originalName |-> name, kind |-> kind, driveUrl |-> url, isDuplicate |-> isDup]

\* no attachment taken for a file that is not a PDF
skipsNonPdfNever(name) == FALSE

\* the branch "if (!isPdf)": the attachment is listed and not saved
skipsNonPdf(name) == ~isPdf(name)

\* the duplicate branch never taken
skipsSaveNever(duplicateInfo) == FALSE

\* the branch "duplicate content: skip the PDF save, give the existing URL"
skipsSave(duplicateInfo) == duplicateInfo.isDuplicate

\* the condition under which the saved content is recorded: the attachment
\* at array index 0 (position 1 here), and a content key exists
recordsContent(position, contentKey) == position = 1 /\ contentKey # <<>>

\* The body of attachments.forEach for the attachments from position i on.
\* acc = [info, drive, sheet]; failSet holds the positions whose
\* saveAttachmentToDrive throws.
RECURSIVE forEachAttachment(_, _, _, _, _, _, _)
forEachAttachment(messageId, atts, i, duplicateInfo, contentKey, failSet, acc) ==
  IF i > Len(atts) THEN acc
  ELSE
    LET name == atts[i]
        next ==
          IF skipsNonPdf(name)
          THEN [acc EXCEPT !.info = Append(@, Info(name, "notpdf", NoUrl, FALSE))]
          ELSE IF skipsSave(duplicateInfo)
          THEN [acc EXCEPT !.info =
                  Append(@, Info(name, "duplicate", duplicateInfo.existingUrl, TRUE))]
          ELSE IF i \in failSet
          THEN [acc EXCEPT !.info = Append(@, Info(name, "error", NoUrl, FALSE))]
          ELSE
            [info  |-> Append(acc.info,
                         Info(name, "saved", FileUrl(Len(acc.drive) + 1), FALSE)),
             drive |-> Append(acc.drive,
                         [messageId |-> messageId, index |-> i, name |-> name]),
             sheet |-> IF recordsContent(i, contentKey)
                       THEN recordContentDuplicate(acc.sheet, contentKey, FolderUrl)
                       ELSE acc.sheet]
    IN forEachAttachment(messageId, atts, i + 1, duplicateInfo, contentKey,
                         failSet, next)

\* attachmentInfo of a message without PDF: processMessage lists the files
notPdfInfo(atts) == [i \in 1..Len(atts) |-> Info(atts[i], "notpdf", NoUrl, FALSE)]

\* ------------------------------------------------------------ Gmail search
ThreadMsgs(t) ==
  SelectSeq([i \in 1..Len(mailbox) |-> i], LAMBDA m : mailbox[m].thread = t)

\* a thread matches the query when one of its messages carries neither the
\* Contract_Processed nor the Contract_Skipped label
MatchingThreads ==
  { t \in Threads : \E m \in MsgIds :
      mailbox[m].thread = t /\ m \notin labeled /\ m \notin skipLabeled }

Latest(t) == CHOOSE m \in MsgIds :
  /\ mailbox[m].thread = t
  /\ \A k \in MsgIds : mailbox[k].thread = t => k <= m

\* most recent conversation first
RECURSIVE OrderThreads(_)
OrderThreads(S) ==
  IF S = {} THEN <<>>
  ELSE LET t == CHOOSE u \in S : \A v \in S : Latest(u) >= Latest(v)
       IN <<t>> \o OrderThreads(S \ {t})

\* GmailApp.search(query, 0, MAX_EMAILS_PER_RUN * 3)
SearchThreads ==
  LET all == OrderThreads(MatchingThreads)
  IN SubSeq(all, 1, Min(Len(all), MAX_EMAILS_PER_RUN * SEARCH_THREAD_FACTOR))

\* ------------------------------------------------------- invocation state
Idle ==
  [pc |-> "idle", failedBefore |-> {}, queue |-> <<>>, ti |-> 0, tmsgs |-> <<>>, mi |-> 0,
   threadHasNew |-> FALSE, contentKey |-> <<>>, hadRecord |-> FALSE,
   duplicateInfo |-> [isDuplicate |-> FALSE, existingUrl |-> NoUrl],
   info |-> <<>>, processedCount |-> 0, returned |-> "none"]

\* locals of one message cleared
Cleared(rr) ==
  [rr EXCEPT !.contentKey = <<>>, !.hadRecord = FALSE,
             !.duplicateInfo = [isDuplicate |-> FALSE, existingUrl |-> NoUrl],
             !.info = <<>>]

\* thread.getMessages() at the start of the iteration for thread ti
EnterThread(rr, ti) ==
  [Cleared(rr) EXCEPT !.pc = "msg", !.ti = ti, !.tmsgs = ThreadMsgs(rr.queue[ti]),
                      !.mi = 1, !.threadHasNew = FALSE]

\* a callback whose end leaves the conversation (the try around the loop
\* instead of inside it)
NextMessageEndsThread(rr) == [Cleared(rr) EXCEPT !.pc = "label"]

\* the end of the callback of messages.forEach: next message, or thread end
NextMessage(rr) ==
  IF rr.mi < Len(rr.tmsgs)
  THEN [Cleared(rr) EXCEPT !.pc = "msg", !.mi = rr.mi + 1]
  ELSE [Cleared(rr) EXCEPT !.pc = "label"]

Current(r) == run[r].tmsgs[run[r].mi]

AllIdle == \A r \in Runners : run[r].pc = "idle"

\* the Content Ledger holds a row for the key; the Processing Ledger holds
\* a row for the message (read off the sheets, not through the lookups)
HasContentRecord(key) == \E i \in 1..Len(contentSheet) : contentSheet[i].contentKey = key
HasProcessingRecord(m) == \E i \in 1..Len(processedSheet) : processedSheet[i].messageId = m

\* ------------------------------------------------------ Script Properties
\* the store: the number of properties that are not PROCESSED_MSG_ entries,
\* and the PROCESSED_MSG_ entries, key -> value (a timestamp)
EmptyStore == [others |-> 0, msgs |-> [k \in {} |-> 0]]

\* no Script Properties operation in progress
OpIdle ==
  [pc |-> "idle", kind |-> "none", key |-> 0, value |-> 0, removeCount |-> 0,
   toRemove |-> <<>>, removed |-> 0, ret |-> 0, error |-> FALSE,
   overlapped |-> FALSE]

KeyIds == 1..MaxKeys               \* PROCESSED_MSG_<id>
NewOtherKey == 0                   \* a key without the prefix, not yet in the store
OldOtherKey == -1                  \* a key without the prefix, in the store
Times == 1..MaxTime                \* timestamps (the values of the entries)
Cutoffs == 1..(MaxTime + 1)        \* now - daysOld days
RemoveCounts == {1, 2, DEFAULT_ROTATE_COUNT}

\* key.startsWith('PROCESSED_MSG_')
isProcessedMsgKey(key) == key \in KeyIds

\* Object.keys(allProperties).length
StoreCount(p) == p.others + Cardinality(DOMAIN p.msgs)

\* allProperties.hasOwnProperty(key)
hasProperty(p, key) ==
  IF isProcessedMsgKey(key) THEN key \in DOMAIN p.msgs ELSE key = OldOtherKey

\* PropertiesService.getScriptProperties().deleteProperty(key); no effect
\* when the key is absent
deleteProperty(p, key) ==
  [p EXCEPT !.msgs = [k \in DOMAIN p.msgs \ {key} |-> p.msgs[k]]]

\* PropertiesService.getScriptProperties().setProperty(key, value)
putProperty(p, key, value) ==
  IF isProcessedMsgKey(key)
  THEN [p EXCEPT !.msgs = [k \in DOMAIN p.msgs \cup {key} |->
                             IF k = key THEN value ELSE p.msgs[k]]]
  ELSE IF key = NewOtherKey THEN [p EXCEPT !.others = @ + 1]
  ELSE p

\* a comparison that puts the newest entry first
newerFirst(a, b) == a >= b

\* processedMessages.sort((a, b) => a.timestamp - b.timestamp): a before b
olderFirst(a, b) == a <= b

\* processedMessages.sort(...).slice(0, Math.min(removeCount, length)): the
\* sequences the sort and slice can give (entries with one timestamp come in
\* the order getProperties lists them, which is not fixed)
toRemoveChoices(msgs, removeCount) ==
  LET n == Min(removeCount, Cardinality(DOMAIN msgs))
  IN { seq \in [1..n -> DOMAIN msgs] :
         /\ \A i, j \in 1..n : i < j =>
              /\ seq[i] # seq[j]
              /\ olderFirst(msgs[seq[i]], msgs[seq[j]])
         /\ \A k \in DOMAIN msgs \ Range(seq) :
              \A i \in 1..n : olderFirst(msgs[seq[i]], msgs[k]) }

\* the PROCESSED_MSG_ entries with timestamp < cutoffTime
olderThan(p, cutoff) == { k \in DOMAIN p.msgs : p.msgs[k] < cutoff }

\* the store after deleteProperty of each key of a set
deleteProperties(p, keys) ==
  [p EXCEPT !.msgs = [k \in DOMAIN p.msgs \ keys |-> p.msgs[k]]]

\* ------------------------------------- cleanupOldProcessedEntriesFromSpreadsheet
\* sheet.deleteRow for the i-th data row
deleteRow(sheet, i) == SubSeq(sheet, 1, i - 1) \o SubSeq(sheet, i + 1, Len(sheet))

\* a loop that walks the rows from the top
RECURSIVE cleanupLoopFromTop(_, _, _, _, _)
cleanupLoopFromTop(sheet, data, i, cutoffDate, removedCount) ==
  IF i > Len(data) THEN [sheet |-> sheet, removedCount |-> removedCount]
  ELSE IF data[i].processingDate < cutoffDate
       THEN cleanupLoopFromTop(deleteRow(sheet, i), data, i + 1, cutoffDate,
                               removedCount + 1)
       ELSE cleanupLoopFromTop(sheet, data, i + 1, cutoffDate, removedCount)

\* for (let i = data.length - 1; i >= 0; i--): data is the snapshot read
\* before the loop, the rows are deleted from the bottom
RECURSIVE cleanupLoop(_, _, _, _, _)
cleanupLoop(sheet, data, i, cutoffDate, removedCount) ==
  IF i < 1 THEN [sheet |-> sheet, removedCount |-> removedCount]
  ELSE IF data[i].processingDate < cutoffDate
       THEN cleanupLoop(deleteRow(sheet, i), data, i - 1, cutoffDate,
                        removedCount + 1)
       ELSE cleanupLoop(sheet, data, i - 1, cutoffDate, removedCount)

\* a cleanup that walks every sheet of the spreadsheet
cleanupEverySheet(spreadsheet, cutoffDate) ==
  [content |-> <<>>, processed |-> <<>>, removedCount |-> Len(spreadsheet.processed)]

\* cleanupOldProcessedEntriesFromSpreadsheet on the spreadsheet
\* [content, processed]: it opens the Processing Ledger sheet only
cleanupOldProcessedEntriesFromSpreadsheet(spreadsheet, cutoffDate) ==
  LET processedSheetData == spreadsheet.processed
      res == IF Len(processedSheetData) = 0
             THEN [sheet |-> processedSheetData, removedCount |-> 0]
             ELSE cleanupLoop(processedSheetData, processedSheetData,
                              Len(processedSheetData), cutoffDate, 0)
  IN [content |-> spreadsheet.content, processed |-> res.sheet,
      removedCount |-> res.removedCount]

\* ------------------------------------------------------- project triggers
\* no processEmails trigger installed, no TRIGGER_ID stored, no trigger
\* function run yet
\* installed: the unique ids of the project triggers whose handler is
\* processEmails; storedId: the property TRIGGER_ID; createdAt: the property
\* TRIGGER_CREATED is present; nextId: the id of the next trigger created;
\* last: the trigger function that returned last, "threw" when it threw
NoTrigger == 0
NoTriggers ==
  [installed |-> {}, storedId |-> NoTrigger, createdAt |-> FALSE, nextId |-> 1,
   last |-> "none"]

\* the calls of createTrigger that may throw
TriggerFailures == {"none", "newTrigger", "TRIGGER_ID", "TRIGGER_CREATED"}

\* deleteExistingTriggers: every processEmails trigger deleted, the two
\* tracking properties deleted
deleteExistingTriggers(t) ==
  [t EXCEPT !.installed = {}, !.storedId = NoTrigger, !.createdAt = FALSE]

\* getTriggerInfo().length
triggerCount(t) == Cardinality(t.installed)

\* createTrigger: delete, create, store the id and the date; failAt names
\* the call that throws (the catch rethrows)
createTrigger(t, failAt) ==
  LET cleared == deleteExistingTriggers(t)
      id == cleared.nextId
      made == [cleared EXCEPT !.installed = {id}, !.nextId = id + 1]
  IN IF failAt = "newTrigger" THEN [cleared EXCEPT !.last = "threw"]
     ELSE IF failAt = "TRIGGER_ID" THEN [made EXCEPT !.last = "threw"]
     ELSE IF failAt = "TRIGGER_CREATED"
     THEN [made EXCEPT !.storedId = id, !.last = "threw"]
     ELSE [made EXCEPT !.storedId = id, !.createdAt = TRUE, !.last = "createTrigger"]

\* checkTriggerHealth: no trigger, recreate; several, delete and recreate;
\* exactly one, the check has passed and nothing is changed
checkTriggerHealth(t, failAt) ==
  LET renamed(u) == IF u.last = "threw" THEN u
                    ELSE [u EXCEPT !.last = "checkTriggerHealth"]
  IN IF triggerCount(t) = 0 THEN renamed(createTrigger(t, failAt))
     ELSE IF triggerCount(t) > 1
     THEN renamed(createTrigger(deleteExistingTriggers(t), failAt))
     ELSE [t EXCEPT !.last = "checkTriggerHealth"]

\* disableTriggers: nothing without triggers, else deleteExistingTriggers
disableTriggers(t) ==
  IF triggerCount(t) = 0 THEN [t EXCEPT !.last = "disableTriggers"]
  ELSE [deleteExistingTriggers(t) EXCEPT !.last = "disableTriggers"]

\* --------------------------------------------------- ensureUniqueFilename
\* Names of the target folder that matter to a call for fileName: 0 stands
\* for fileName itself, k >= 1 for baseName_k.extension; TimestampName for
\* fileName_<timestamp> of the catch.
TimestampName == -1
NoNameCall == [called |-> FALSE, files |-> {}, returned |-> 0]

\* the do-while loop: try baseName_counter, stop at the first free name or
\* when the counter reaches the safety limit
RECURSIVE uniqueNameLoop(_, _)
uniqueNameLoop(files, counter) ==
  LET uniqueName == counter
  IN IF uniqueName \notin files THEN uniqueName
     ELSE IF counter + 1 < SAFETY_LIMIT THEN uniqueNameLoop(files, counter + 1)
     ELSE uniqueName

\* ensureUniqueFilename(folder, fileName); driveFails: a Drive call throws
ensureUniqueFilename(files, driveFails) ==
  IF driveFails THEN TimestampName
  ELSE IF 0 \notin files THEN 0
  ELSE uniqueNameLoop(files, 1)

\* folders: the name and its first variants all present, or all but one
Folders ==
  { 0..(k - 1) : k \in 0..MaxFiles }
  \cup { (0..(k - 1)) \ {j} : k \in 1..MaxFiles, j \in 0..(MaxFiles - 1) }

\* ------------------------------------------------------------------- Init
Init ==
  /\ mailbox = <<>>
  /\ labeled = {}
  /\ contentSheet = <<>>
  /\ processedSheet = <<>>
  /\ mainSheet = <<>>
  /\ drive = <<>>
  /\ slack = <<>>
  /\ run = [r \in Runners |-> Idle]
  /\ faults = 0
  /\ handed = {}
  /\ entered = {}
  /\ skipped = {}
  /\ novel = {}
  /\ duplicate = {}
  /\ failed = {}
  /\ retryDue = {}
  /\ retried = {}
  /\ props = EmptyStore
  /\ op = [r \in Runners |-> OpIdle]
  /\ keyCall = NoKeyCall
  /\ skipLabeled = {}
  /\ triggers = NoTriggers
  /\ nameCall = NoNameCall

\* ------------------------------------------------------------ environment
\* a message from a monitored sender arrives
\* between the invocations, or in the conversation that an invocation is
\* about to label: processEmails reads the mailbox at the search and at
\* thread.getMessages() only, so an arrival at any other point of a run has
\* the effect of one of these.  The first conversation is named t1.
Arrive ==
  /\ UNCHANGED auxVars
  /\ Len(mailbox) < MaxMsgs
  /\ \E msg \in Messages :
       /\ \/ AllIdle
          \/ \E r \in Runners : /\ run[r].pc = "label"
                                /\ msg.thread = run[r].queue[run[r].ti]
       /\ mailbox = <<>> => msg.thread = "t1"
       /\ mailbox' = Append(mailbox, msg)
  /\ UNCHANGED << labeled, sheetVars, drive, slack, run, faults, histVars >>

\* a call of a service fails only while the budget of failures lasts
MayFail(b) == b => faults < MaxFaults
Count(b) == IF b THEN 1 ELSE 0

\* ------------------------------------------------------------ processEmails
\* processEmails up to the search; without threads it returns at once
StartRun(r) ==
  /\ UNCHANGED auxVars
  /\ run[r].pc = "idle"
  /\ LET q == SearchThreads IN
       IF q = <<>>
       THEN /\ run' = run
            /\ retryDue' = failed
       ELSE /\ run' = [run EXCEPT ![r] = EnterThread([Idle EXCEPT !.queue = q, !.failedBefore = failed], 1)]
            /\ retryDue' = retryDue
  /\ UNCHANGED << gmailVars, sheetVars, drive, slack, faults, handed, entered,
                  skipped, novel, duplicate, failed, retried >>

\* the periodic trigger: invocations do not overlap
ProcessEmails == AllIdle /\ StartRun(1)

\* messages.forEach callback up to the content check of processAttachments:
\* message check, processMessage's reads, pattern check,
\* addEmailRecord, PDF filter, key generation and Content Ledger lookup.
\* sheetFails: the read of the Processing Ledger throws in the message check.
CheckMessageIf(r, sheetFails) ==
  /\ UNCHANGED auxVars
  /\ run[r].pc = "msg"
  /\ LET m == Current(r)
         atts == mailbox[m].atts
         pdfNames == pdfNamesOf(atts)
         key == generateContentDuplicateKey(pdfNames)
         dup == checkContentDuplicate(contentSheet, key)
     IN
       IF isMessageAlreadyProcessedTry(processedSheet, m, sheetFails)
       THEN /\ run' = [run EXCEPT ![r] = NextMessage(@)]
            /\ skipped' = skipped \cup {m}
            /\ UNCHANGED << mainSheet, faults, handed, entered, novel, duplicate,
                            retried >>
       ELSE
         /\ handed' = handed \cup {m}
         /\ retried' = IF m \in failed THEN retried \cup {m} ELSE retried
         /\ UNCHANGED skipped
         /\ \E gmailFails \in BOOLEAN :
              /\ faults + Count(sheetFails) + Count(gmailFails) <= MaxFaults
              /\ faults' = faults + Count(sheetFails) + Count(gmailFails)
              /\ IF gmailFails \/ ~mailbox[m].matches
                 THEN \* a Gmail read throws (the catch of processMessage
                      \* then reads messageId, a const of the try block, and
                      \* throws), or the subject matches no pattern (return
                      \* false)
                      /\ run' = [run EXCEPT ![r] =
                                  [NextMessage(@) EXCEPT !.returned =
                                     IF gmailFails THEN "threw" ELSE "false"]]
                      /\ UNCHANGED << mainSheet, entered, novel, duplicate >>
                 ELSE IF pdfNames = <<>>
                 THEN /\ mainSheet' = addEmailRecord(mainSheet, m)
                      /\ run' = [run EXCEPT ![r].pc = "notify",
                                            ![r].returned = "none",
                                            ![r].info = notPdfInfo(atts)]
                      /\ entered' = entered \cup {m}
                      /\ UNCHANGED << novel, duplicate >>
                 ELSE /\ mainSheet' = addEmailRecord(mainSheet, m)
                      /\ run' = [run EXCEPT ![r].pc = "attach",
                                            ![r].returned = "none",
                                            ![r].contentKey = key,
                                            ![r].hadRecord = HasContentRecord(key),
                                            ![r].duplicateInfo = dup]
                      /\ novel' = IF dup.isDuplicate THEN novel ELSE novel \cup {m}
                      /\ duplicate' = IF dup.isDuplicate THEN duplicate \cup {m}
                                      ELSE duplicate
                      /\ entered' = entered \cup {m}
  /\ UNCHANGED << gmailVars, contentSheet, processedSheet, drive, slack,
                  failed, retryDue >>

\* the step with the Processing Ledger readable
CheckMessage(r) == run[r].pc = "msg" /\ CheckMessageIf(r, FALSE)

\* the step when the read of the Processing Ledger throws: the catch of
\* isMessageProcessedInSpreadsheet answers false
CheckMessageLedgerDown(r) == run[r].pc = "msg" /\ CheckMessageIf(r, TRUE)

\* processAttachments from the folder access on: the attachment loop, with
\* the saves and the Content Ledger append
ProcessAttachments(r) ==
  /\ UNCHANGED auxVars
  /\ run[r].pc = "attach"
  /\ LET m == Current(r)
         atts == mailbox[m].atts
         dup == run[r].duplicateInfo
         pdfPos == { i \in 1..Len(atts) : isPdf(atts[i]) }
     IN \E folderFails \in BOOLEAN, failSet \in SUBSET pdfPos :
          /\ dup.isDuplicate => failSet = {}
          /\ folderFails => failSet = {}
          /\ faults + Count(folderFails) + Cardinality(failSet) <= MaxFaults
          /\ faults' = faults + Count(folderFails) + Cardinality(failSet)
          /\ IF folderFails
             THEN \* DriveApp.getFolderById throws: processAttachments throws,
                  \* processMessage catches and goes on with no attachment info
                  /\ run' = [run EXCEPT ![r].pc = "notify", ![r].info = <<>>]
                  /\ UNCHANGED << drive, contentSheet >>
             ELSE LET res == forEachAttachment(m, atts, 1, dup, run[r].contentKey,
                               failSet,
                               [info |-> <<>>, drive |-> drive, sheet |-> contentSheet])
                  IN /\ run' = [run EXCEPT ![r].pc = "notify", ![r].info = res.info]
                     /\ drive' = res.drive
                     /\ contentSheet' = res.sheet
          /\ failed' = IF ~dup.isDuplicate /\ (folderFails \/ failSet # {})
                       THEN failed \cup {m} ELSE failed
  /\ UNCHANGED << gmailVars, processedSheet, mainSheet, slack, handed, entered,
                  skipped, novel, duplicate, retryDue, retried >>

\* the rest of processMessage: the Slack notification (which may fail), the
\* final status of the contract list row, return true; then processEmails
\* counts the message and sets threadHasNewMessages
Notify(r) ==
  /\ UNCHANGED auxVars
  /\ run[r].pc = "notify"
  /\ LET m == Current(r) IN
       /\ \E slackFails \in BOOLEAN :
            /\ MayFail(slackFails)
            /\ faults' = faults + Count(slackFails)
            /\ slack' = IF slackFails THEN slack
                        ELSE Append(slack, [messageId |-> m, attachments |-> run[r].info])
       /\ mainSheet' = updateRecordStatus(mainSheet, m, "Success",
                                          pdfDirectLinksOf(run[r].info))
       /\ run' = [run EXCEPT ![r].pc = "mark", ![r].threadHasNew = TRUE,
                             ![r].returned = "true",
                             ![r].processedCount = @ + 1]
  /\ UNCHANGED << gmailVars, contentSheet, processedSheet, drive, histVars >>

\* markMessageAsProcessed(message), then the next message
MarkProcessed(r) ==
  /\ UNCHANGED auxVars
  /\ run[r].pc = "mark"
  /\ processedSheet' = markMessageAsProcessed(processedSheet, Current(r))
  /\ run' = [run EXCEPT ![r] = NextMessage(@)]
  /\ UNCHANGED << gmailVars, contentSheet, mainSheet, drive, slack, faults,
                  histVars >>

\* the end of the thread: addProcessedLabel if the thread had new messages
\* (thread.addLabel may fail, which is only logged); then the next thread
\* or the end of processEmails
EndThread(r) ==
  /\ UNCHANGED auxVars
  /\ run[r].pc = "label"
  /\ LET t == run[r].queue[run[r].ti] IN
       IF run[r].threadHasNew
       THEN \E labelFails \in BOOLEAN :
              /\ MayFail(labelFails)
              /\ faults' = faults + Count(labelFails)
              /\ labeled' = IF labelFails THEN labeled
                            ELSE labeled \cup Range(ThreadMsgs(t))
       ELSE /\ labeled' = labeled
            /\ faults' = faults
  /\ IF run[r].ti < Len(run[r].queue)
     THEN /\ run' = [run EXCEPT ![r] = EnterThread(@, run[r].ti + 1)]
          /\ retryDue' = retryDue
     ELSE \* processEmails returns; the messages that had failed before this
          \* invocation began have now had their next periodic run
          /\ run' = [run EXCEPT ![r] = Idle]
          /\ retryDue' = run[r].failedBefore
  /\ UNCHANGED << mailbox, sheetVars, drive, slack, handed, entered, skipped,
                  novel, duplicate, failed, retried >>

Next ==
  \/ Arrive
  \/ ProcessEmails
  \/ \E r \in Runners : CheckMessage(r)
  \/ \E r \in Runners : ProcessAttachments(r)
  \/ \E r \in Runners : Notify(r)
  \/ \E r \in Runners : MarkProcessed(r)
  \/ \E r \in Runners : EndThread(r)

Spec == Init /\ [][Next]_vars

\* --------------------------------------- the Processing Ledger unreadable
\* as Spec, and the read of the Processing Ledger in the message check may
\* throw (Spreadsheet service error), within the budget of failures
NextLedgerDown ==
  \/ Next
  \/ \E r \in Runners : CheckMessageLedgerDown(r)

SpecLedgerDown == Init /\ [][NextLedgerDown]_vars

\* --------------------------------------- the Processing Ledger unwritable
\* markMessageAsProcessed when the append to the Processing Ledger throws:
\* markMessageProcessedInSpreadsheet logs the error and does not rethrow, so
\* processEmails goes on to the next message with nothing recorded
MarkProcessedFails(r) ==
  /\ UNCHANGED auxVars
  /\ run[r].pc = "mark"
  /\ MayFail(TRUE)
  /\ faults' = faults + 1
  /\ run' = [run EXCEPT ![r] = NextMessage(@)]
  /\ UNCHANGED << gmailVars, sheetVars, drive, slack, histVars >>

NextMarkFails ==
  \/ Next
  \/ \E r \in Runners : MarkProcessedFails(r)

SpecMarkFails == Init /\ [][NextMarkFails]_vars

\* ------------------------------------------- maintenance between the runs
\* cleanupOldProcessedEntriesFromSpreadsheet run between two invocations.
\* The rows of the Processing Ledger are appended with the date of the
\* append, so the position of a row stands for its Processing Date and the
\* cutoff for now - daysOld days.
CleanupOldProcessedEntries ==
  /\ UNCHANGED auxVars
  /\ AllIdle
  /\ processedSheet # <<>>
  /\ \E cutoffDate \in 2..(Len(processedSheet) + 1) :
       LET dated == [i \in 1..Len(processedSheet) |->
                       [processingDate |-> i, row |-> processedSheet[i]]]
           res == cleanupOldProcessedEntriesFromSpreadsheet(
                    [content |-> contentSheet, processed |-> dated], cutoffDate)
       IN /\ processedSheet' = [i \in 1..Len(res.processed) |-> res.processed[i].row]
          /\ contentSheet' = res.content
  /\ UNCHANGED << gmailVars, mainSheet, drive, slack, run, faults, histVars >>

NextCleanup ==
  \/ Next
  \/ CleanupOldProcessedEntries

SpecCleanup == Init /\ [][NextCleanup]_vars

\* ------------------------------------------- an attachment unreadable
\* processMessage when attachment.getName() throws in the PDF filter: the
\* row of the contract list has been added with status 'Processing'; the
\* outer catch reads messageId, a const of the try block, and throws in its
\* turn, so no status is written and processEmails' catch logs the error
\* and goes on: no ProcessingRecord, threadHasNewMessages not set
CheckMessageAttachmentFails(r) ==
  /\ UNCHANGED auxVars
  /\ run[r].pc = "msg"
  /\ LET m == Current(r) IN
       /\ ~isMessageAlreadyProcessedTry(processedSheet, m, FALSE)
       /\ mailbox[m].matches
       /\ mailbox[m].atts # <<>>
       /\ MayFail(TRUE)
       /\ faults' = faults + 1
       /\ mainSheet' = addEmailRecord(mainSheet, m)
       /\ run' = [run EXCEPT ![r] = [NextMessage(@) EXCEPT !.returned = "threw"]]
       /\ handed' = handed \cup {m}
       /\ entered' = entered \cup {m}
       /\ retried' = IF m \in failed THEN retried \cup {m} ELSE retried
  /\ UNCHANGED << gmailVars, contentSheet, processedSheet, drive, slack,
                  skipped, novel, duplicate, failed, retryDue >>

NextAttachmentFails ==
  \/ Next
  \/ \E r \in Runners : CheckMessageAttachmentFails(r)

SpecAttachmentFails == Init /\ [][NextAttachmentFails]_vars

\* ------------------------------------------------- overlapping invocations
\* the time trigger or a manual start fires while an invocation is running:
\* processEmails takes no lock
ProcessEmailsOverlapping == ~AllIdle /\ \E r \in Runners : StartRun(r)

NextOverlap ==
  \/ Next
  \/ ProcessEmailsOverlapping

SpecOverlap == Init /\ [][NextOverlap]_vars

\* ------------------------------------------------------ a waiting batch
\* the mailbox when processEmails starts after a pause: n matching messages,
\* the first k of them in one conversation, the first with or without a PDF
BatchMailboxes ==
  { [i \in 1..n |-> [thread |-> IF i <= k THEN "t1" ELSE "t2",
                      atts |-> IF i = 1 THEN first ELSE << >>,
                      matches |-> TRUE]] :
      n \in 1..BatchSize, k \in 1..BatchSize, first \in {<< >>, <<PdfA>>} }

InitBatch ==
  /\ mailbox \in BatchMailboxes
  /\ labeled = {}
  /\ contentSheet = <<>>
  /\ processedSheet = <<>>
  /\ mainSheet = <<>>
  /\ drive = <<>>
  /\ slack = <<>>
  /\ run = [r \in Runners |-> Idle]
  /\ faults = 0
  /\ handed = {}
  /\ entered = {}
  /\ skipped = {}
  /\ novel = {}
  /\ duplicate = {}
  /\ failed = {}
  /\ retryDue = {}
  /\ retried = {}
  /\ props = EmptyStore
  /\ op = [r \in Runners |-> OpIdle]
  /\ keyCall = NoKeyCall
  /\ skipLabeled = {}
  /\ triggers = NoTriggers
  /\ nameCall = NoNameCall

NextBatch ==
  \/ ProcessEmails
  \/ \E r \in Runners : CheckMessage(r)
  \/ \E r \in Runners : ProcessAttachments(r)
  \/ \E r \in Runners : Notify(r)
  \/ \E r \in Runners : MarkProcessed(r)
  \/ \E r \in Runners : EndThread(r)

SpecBatch == InitBatch /\ [][NextBatch]_vars

\* ------------------------------------------- ensureUniqueFilename called
InitNames ==
  /\ mailbox = <<>>
  /\ labeled = {}
  /\ contentSheet = <<>>
  /\ processedSheet = <<>>
  /\ mainSheet = <<>>
  /\ drive = <<>>
  /\ slack = <<>>
  /\ run = [r \in Runners |-> Idle]
  /\ faults = 0
  /\ handed = {}
  /\ entered = {}
  /\ skipped = {}
  /\ novel = {}
  /\ duplicate = {}
  /\ failed = {}
  /\ retryDue = {}
  /\ retried = {}
  /\ props = EmptyStore
  /\ op = [r \in Runners |-> OpIdle]
  /\ keyCall = NoKeyCall
  /\ skipLabeled = {}
  /\ triggers = NoTriggers
  /\ nameCall \in { [NoNameCall EXCEPT !.files = files] : files \in Folders }

\* one call on the folder drawn
EnsureUniqueFilenameCall ==
  /\ ~nameCall.called
  /\ \E driveFails \in BOOLEAN :
       nameCall' = [nameCall EXCEPT
                      !.called = TRUE,
                      !.returned = ensureUniqueFilename(nameCall.files, driveFails)]
  /\ UNCHANGED << gmailVars, sheetVars, drive, slack, run, faults, histVars,
                  props, op, keyCall, skipLabeled, triggers >>

NextNames == EnsureUniqueFilenameCall

SpecNames == InitNames /\ [][NextNames]_vars

\* ------------------------------------------- the trigger functions called
othersThanTriggers ==
  << gmailVars, sheetVars, drive, slack, run, faults, histVars, props, op,
     keyCall, skipLabeled, nameCall >>

CreateTriggerCall ==
  /\ triggers.nextId <= MaxTriggerIds
  /\ \E failAt \in TriggerFailures : triggers' = createTrigger(triggers, failAt)
  /\ UNCHANGED othersThanTriggers

CheckTriggerHealthCall ==
  /\ triggers.nextId <= MaxTriggerIds
  /\ \E failAt \in TriggerFailures :
       /\ triggerCount(triggers) = 1 => failAt = "none"
       /\ triggers' = checkTriggerHealth(triggers, failAt)
  /\ UNCHANGED othersThanTriggers

DisableTriggersCall ==
  /\ triggers' = disableTriggers(triggers)
  /\ UNCHANGED othersThanTriggers

\* a processEmails trigger added in the script editor, outside the
\* trigger functions: the duplicates that checkTriggerHealth looks for
AddTriggerInEditor ==
  /\ triggers.nextId <= MaxTriggerIds
  /\ triggers' = [triggers EXCEPT !.installed = @ \cup {triggers.nextId},
                                  !.nextId = @ + 1,
                                  !.last = "editor"]
  /\ UNCHANGED othersThanTriggers

NextTriggers ==
  \/ CreateTriggerCall
  \/ CheckTriggerHealthCall
  \/ DisableTriggersCall
  \/ AddTriggerInEditor

\* the project as installed: no trigger, no tracking property
SpecTriggers == Init /\ [][NextTriggers]_vars

\* ------------------------------------------- the Content Ledger called directly
\* content keys and Drive URLs handed to the ledger functions
OpKeys ==
  { generateContentDuplicateKey(names) : names \in { <<PdfA>>, <<PdfB>>, <<PdfA, PdfB>> } }
OpUrls == { FolderUrl, FileUrl(1) }

\* recordContentDuplicate called with any key and URL, as the test functions
\* and a repeated Novel handling call it
RecordContentDuplicateCall ==
  /\ UNCHANGED auxVars
  /\ Len(contentSheet) < MaxRows
  /\ \E contentKey \in OpKeys, driveUrl \in OpUrls :
       contentSheet' = recordContentDuplicate(contentSheet, contentKey, driveUrl)
  /\ UNCHANGED << gmailVars, processedSheet, mainSheet, drive, slack, run, faults,
                  histVars >>

NextLedgerOps == RecordContentDuplicateCall

SpecLedgerOps == Init /\ [][NextLedgerOps]_vars

\* ------------------------------------------- messages with several recipients
\* as Arrive, the message carrying the number of distinct addresses of its
\* To field.  processMessage reads the field through getMessageRecipient,
\* which keeps the first address, for the contract list row only; no step
\* of processEmails iterates over the recipients.
ArriveTo ==
  /\ UNCHANGED auxVars
  /\ Len(mailbox) < MaxMsgs
  /\ \E msg \in Messages, recipients \in 1..MaxRecipients :
       /\ \/ AllIdle
          \/ \E r \in Runners : /\ run[r].pc = "label"
                                /\ msg.thread = run[r].queue[run[r].ti]
       /\ mailbox = <<>> => msg.thread = "t1"
       /\ mailbox' = Append(mailbox,
                            [thread |-> msg.thread, atts |-> msg.atts,
                             matches |-> msg.matches, recipients |-> recipients])
  /\ UNCHANGED << labeled, sheetVars, drive, slack, run, faults, histVars >>

NextRecipients ==
  \/ ArriveTo
  \/ ProcessEmails
  \/ \E r \in Runners : CheckMessage(r)
  \/ \E r \in Runners : ProcessAttachments(r)
  \/ \E r \in Runners : Notify(r)
  \/ \E r \in Runners : MarkProcessed(r)
  \/ \E r \in Runners : EndThread(r)

SpecRecipients == Init /\ [][NextRecipients]_vars

\* ------------------------------------- generateContentDuplicateKey called
\* one call, the arguments drawn from the input sets; keyCall keeps the
\* arguments, the caller's name list after the call, and the key returned
KeyCallOutcome(sender, date, subject, pdfNames, now) ==
  [called |-> TRUE, sender |-> sender, date |-> date, subject |-> subject,
   pdfNames |-> pdfNames, pdfNamesAfter |-> pdfNamesAfterCall(pdfNames),
   now |-> now,
   key |-> generateContentDuplicateKeyAt(sender, date, subject, pdfNames, now),
   returned |-> IF keyCall.called THEN keyCall.returned \cup {keyCall.key}
                ELSE {}]

\* a call with a date
GenerateKeyCall ==
  /\ ~keyCall.called
  /\ \E sender \in Senders, date \in DateInputs, subject \in Subjects,
        pdfNames \in KeyNameLists :
       keyCall' = KeyCallOutcome(sender, date, subject, pdfNames, 0)
  /\ UNCHANGED << gmailVars, sheetVars, drive, slack, run, faults, histVars,
                  props, op, toolVars >>

NextKey == GenerateKeyCall

SpecKey == Init /\ [][NextKey]_vars

\* a call without a date, at a clock reading not before the last one
GenerateKeyFailingCall ==
  /\ \E sender \in Senders, subject \in Subjects, pdfNames \in KeyNameLists,
        now \in Clock :
       /\ keyCall.called => now >= keyCall.now
       /\ keyCall' = KeyCallOutcome(sender, NoDate, subject, pdfNames, now)
  /\ UNCHANGED << gmailVars, sheetVars, drive, slack, run, faults, histVars,
                  props, op, toolVars >>

NextKeyFallback == GenerateKeyFailingCall

SpecKeyFallback == Init /\ [][NextKeyFallback]_vars

\* ------------------------------------------ Script Properties operations
pipelineVars ==
  << gmailVars, sheetVars, drive, slack, run, faults, histVars, keyCall,
     toolVars >>

OpBusy(r) == op[r].pc \notin {"idle", "done"}

\* no other invocation is inside an operation on the store
Quiet(r) == \A q \in Runners \ {r} : ~OpBusy(q)

\* invocation r enters an operation; the operations it overlaps are noted
Started(r, rec) ==
  [q \in Runners |->
     IF q = r THEN [rec EXCEPT !.overlapped = ~Quiet(r)]
     ELSE IF OpBusy(q) THEN [op[q] EXCEPT !.overlapped = TRUE]
     ELSE op[q]]

\* return removedCount from rotateProcessedMessages: back in setProperty,
\* or back in the caller
rotateReturn(rec, removedCount) ==
  IF rec.kind = "setProperty"
  THEN [rec EXCEPT !.pc = "write", !.toRemove = <<>>, !.removed = 0]
  ELSE [rec EXCEPT !.pc = "done", !.toRemove = <<>>, !.removed = 0,
                   !.removeCount = 0, !.ret = removedCount]

\* setProperty(key, value) up to the branch on the property count:
\* getProperties(), currentCount, exists
SetPropertyStart(r, key, value) ==
  /\ ~OpBusy(r)
  /\ key = OldOtherKey => props.others > 0
  /\ key = NewOtherKey => props.others < MaxOthers
  /\ LET currentCount == StoreCount(props)
         exists == hasProperty(props, key)
         pc == IF currentCount >= NEAR_LIMIT /\ ~exists
               THEN IF isProcessedMsgKey(key) THEN "rotate" ELSE "cleanup"
               ELSE "write"
     IN op' = Started(r, [OpIdle EXCEPT !.pc = pc, !.kind = "setProperty",
                                        !.key = key, !.value = value,
                                        !.removeCount = AUTO_ROTATE_COUNT])
  /\ UNCHANGED << props, pipelineVars >>

\* setProperty called while no other invocation uses the store
SetPropertyCall ==
  /\ Quiet(1)
  /\ \E key \in KeyIds \cup {NewOtherKey, OldOtherKey}, value \in Times :
       SetPropertyStart(1, key, value)

\* rotateProcessedMessages(5) called by setProperty, up to toRemove
RotateRead(r) ==
  /\ op[r].pc = "rotate"
  /\ \E toRemove \in toRemoveChoices(props.msgs, op[r].removeCount) :
       op' = [op EXCEPT ![r] = IF Len(toRemove) = 0 THEN rotateReturn(op[r], 0)
                                ELSE [op[r] EXCEPT !.pc = "delete",
                                                   !.toRemove = toRemove]]
  /\ UNCHANGED << props, pipelineVars >>

\* rotateProcessedMessages, toRemove.forEach: one deleteProperty; after the
\* last one the function returns removedCount
RotateDelete(r) ==
  /\ op[r].pc = "delete"
  /\ props' = deleteProperty(props, Head(op[r].toRemove))
  /\ op' = [op EXCEPT ![r] =
              IF Len(op[r].toRemove) = 1
              THEN rotateReturn(op[r], op[r].removed + 1)
              ELSE [op[r] EXCEPT !.toRemove = Tail(op[r].toRemove),
                                 !.removed = op[r].removed + 1]]
  /\ UNCHANGED pipelineVars

\* setProperty, the branch of a key without the prefix:
\* cleanupOldProcessedMessages(3)
CleanupInSetProperty(r) ==
  /\ op[r].pc = "cleanup"
  /\ \E cutoffTime \in Cutoffs :
       props' = deleteProperties(props, olderThan(props, cutoffTime))
  /\ op' = [op EXCEPT ![r].pc = "write"]
  /\ UNCHANGED pipelineVars

\* setProperty, last statement: the property is written whatever the
\* cleanup freed.  With the store at its capacity and a new key, the write
\* either goes through or throws, and setProperty rethrows
SetPropertyWrite(r) ==
  /\ op[r].pc = "write"
  /\ LET key == op[r].key
         full == StoreCount(props) >= PROPERTY_CAPACITY /\ ~hasProperty(props, key)
     IN \E throws \in IF full THEN BOOLEAN ELSE {FALSE} :
          /\ props' = IF throws THEN props ELSE putProperty(props, key, op[r].value)
          /\ op' = [op EXCEPT ![r].pc = "done", ![r].error = throws,
                               ![r].value = 0, ![r].removeCount = 0]
  /\ UNCHANGED pipelineVars

\* rotateProcessedMessages(removeCount) entered by invocation r, up to
\* toRemove: getProperties(), the entries sorted by timestamp, the slice
RotateStart(r, removeCount) ==
  /\ ~OpBusy(r)
  /\ \E toRemove \in toRemoveChoices(props.msgs, removeCount) :
       LET rec == [OpIdle EXCEPT !.kind = "rotate", !.removeCount = removeCount]
       IN op' = Started(r, IF Len(toRemove) = 0 THEN rotateReturn(rec, 0)
                           ELSE [rec EXCEPT !.pc = "delete",
                                            !.toRemove = toRemove])
  /\ UNCHANGED << props, pipelineVars >>

\* rotateProcessedMessages called from the editor
RotateCall ==
  /\ Quiet(1)
  /\ \E removeCount \in RemoveCounts : RotateStart(1, removeCount)

\* clearAllProcessedMessages: every PROCESSED_MSG_ entry is deleted
ClearAllCall ==
  /\ Quiet(1) /\ ~OpBusy(1)
  /\ props' = deleteProperties(props, DOMAIN props.msgs)
  /\ op' = Started(1, [OpIdle EXCEPT !.pc = "done", !.kind = "clearAll",
                                     !.ret = Cardinality(DOMAIN props.msgs)])
  /\ UNCHANGED pipelineVars

\* cleanupOldProcessedMessages(daysOld) called from the editor
CleanupOldCall ==
  /\ Quiet(1) /\ ~OpBusy(1)
  /\ \E cutoffTime \in Cutoffs :
       /\ props' = deleteProperties(props, olderThan(props, cutoffTime))
       /\ op' = Started(1, [OpIdle EXCEPT
                              !.pc = "done", !.kind = "cleanupOld",
                              !.value = cutoffTime,
                              !.ret = Cardinality(olderThan(props, cutoffTime))])
  /\ UNCHANGED pipelineVars

\* cleanupProcessedMessages(daysOld, dryRun)
CleanupProcessedMessagesCall ==
  /\ Quiet(1) /\ ~OpBusy(1)
  /\ \E cutoffTime \in Cutoffs, dryRun \in BOOLEAN :
       LET toDelete == olderThan(props, cutoffTime)
       IN /\ props' = IF dryRun THEN props ELSE deleteProperties(props, toDelete)
          /\ op' = Started(1, [OpIdle EXCEPT
                                 !.pc = "done", !.kind = "cleanupProcessed",
                                 !.value = cutoffTime,
                                 !.ret = IF dryRun THEN 0 ELSE Cardinality(toDelete)])
  /\ UNCHANGED pipelineVars

\* cleanupOldProcessedEntriesFromSpreadsheet(daysOld)
CleanupSheetCall ==
  /\ Quiet(1) /\ ~OpBusy(1)
  /\ \E cutoffDate \in Cutoffs :
       LET res == cleanupOldProcessedEntriesFromSpreadsheet(
                    [content |-> contentSheet, processed |-> processedSheet],
                    cutoffDate)
       IN /\ contentSheet' = res.content
          /\ processedSheet' = res.processed
          /\ op' = Started(1, [OpIdle EXCEPT
                                 !.pc = "done", !.kind = "cleanupSheet",
                                 !.value = cutoffDate,
                                 !.ret = res.removedCount])
  /\ UNCHANGED << gmailVars, mainSheet, drive, slack, run, faults, histVars,
                  keyCall, props, toolVars >>

\* the state the maintenance operations are run in: a Processing Ledger
\* with dated rows, a Content Ledger with records, PROCESSED_MSG_ entries
DatedSheets ==
  UNION { { [i \in 1..n |-> [messageId |-> i, status |-> "Success",
                              processingDate |-> d[i]]] : d \in [1..n -> Times] }
          : n \in 0..MaxSheetRows }

ContentSheets ==
  { <<>>,
    << [contentKey |-> <<PdfA>>, driveUrl |-> FolderUrl] >>,
    << [contentKey |-> <<PdfA>>, driveUrl |-> FolderUrl],
       [contentKey |-> <<PdfA, PdfB>>, driveUrl |-> FileUrl(1)] >> }

Stores ==
  UNION { { [others |-> 0, msgs |-> f] : f \in [K -> Times] } : K \in SUBSET KeyIds }

InitMaintenance ==
  /\ mailbox = <<>>
  /\ labeled = {}
  /\ contentSheet \in ContentSheets
  /\ processedSheet \in DatedSheets
  /\ mainSheet = <<>>
  /\ drive = <<>>
  /\ slack = <<>>
  /\ run = [r \in Runners |-> Idle]
  /\ faults = 0
  /\ handed = {}
  /\ entered = {}
  /\ skipped = {}
  /\ novel = {}
  /\ duplicate = {}
  /\ failed = {}
  /\ retryDue = {}
  /\ retried = {}
  /\ props \in Stores
  /\ op = [r \in Runners |-> OpIdle]
  /\ keyCall = NoKeyCall
  /\ skipLabeled = {}
  /\ triggers = NoTriggers
  /\ nameCall = NoNameCall

\* one maintenance operation is run in the state drawn
NextMaintenance ==
  \/ op[1].pc = "idle" /\ CleanupSheetCall
  \/ op[1].pc = "idle" /\ CleanupOldCall
  \/ op[1].pc = "idle" /\ CleanupProcessedMessagesCall
  \/ op[1].pc = "idle" /\ ClearAllCall
  \/ op[1].pc = "idle" /\ RotateCall
  \/ \E r \in Runners : RotateDelete(r)

SpecMaintenance == InitMaintenance /\ [][NextMaintenance]_vars

\* the store as the setup leaves it: configuration properties only
InitStore ==
  /\ mailbox = <<>>
  /\ labeled = {}
  /\ contentSheet = <<>>
  /\ processedSheet = <<>>
  /\ mainSheet = <<>>
  /\ drive = <<>>
  /\ slack = <<>>
  /\ run = [r \in Runners |-> Idle]
  /\ faults = 0
  /\ handed = {}
  /\ entered = {}
  /\ skipped = {}
  /\ novel = {}
  /\ duplicate = {}
  /\ failed = {}
  /\ retryDue = {}
  /\ retried = {}
  /\ props = [EmptyStore EXCEPT !.others = ConfiguredProperties]
  /\ op = [r \in Runners |-> OpIdle]
  /\ keyCall = NoKeyCall
  /\ skipLabeled = {}
  /\ triggers = NoTriggers
  /\ nameCall = NoNameCall

NextStore ==
  \/ SetPropertyCall
  \/ RotateCall
  \/ \E r \in Runners : RotateRead(r)
  \/ \E r \in Runners : RotateDelete(r)
  \/ \E r \in Runners : CleanupInSetProperty(r)
  \/ \E r \in Runners : SetPropertyWrite(r)

SpecStore == InitStore /\ [][NextStore]_vars

\* a second invocation enters setProperty or rotateProcessedMessages while
\* the first is inside an operation: nothing in the source takes a lock
SetPropertyOverlapping ==
  /\ ~Quiet(2)
  /\ \E key \in KeyIds, value \in Times : SetPropertyStart(2, key, value)

RotateOverlapping ==
  /\ ~Quiet(2)
  /\ \E removeCount \in RemoveCounts : RotateStart(2, removeCount)

NextStoreOverlap ==
  \/ NextStore
  \/ SetPropertyOverlapping
  \/ RotateOverlapping

SpecStoreOverlap == InitStore /\ [][NextStoreOverlap]_vars

\* ================================================================ claims
KeyOf(m) == generateContentDuplicateKey(pdfNamesOf(mailbox[m].atts))
PdfCount(m) == Len(pdfNamesOf(mailbox[m].atts))
FilesOf(m) == { i \in 1..Len(drive) : drive[i].messageId = m }
ContentRows(key) == { i \in 1..Len(contentSheet) : contentSheet[i].contentKey = key }
ProcessingRows(m) == { i \in 1..Len(processedSheet) : processedSheet[i].messageId = m }
NotificationsOf(m) == { i \in 1..Len(slack) : slack[i].messageId = m }
\* the invocation is inside processMessage or about to mark the message
InIteration(m) ==
  \E r \in Runners : run[r].pc \in {"attach", "notify", "mark"} /\ Current(r) = m

C4_DuplicateReuse ==
  \A m1, m2 \in MsgIds :
     ( /\ m1 # m2 /\ KeyOf(m1) = KeyOf(m2)
       /\ m1 \in novel /\ m1 \notin failed
       /\ m2 \in novel \cup duplicate
       /\ HasProcessingRecord(m1) /\ HasProcessingRecord(m2)
       /\ \A i \in ProcessingRows(m1), j \in ProcessingRows(m2) : i < j )
     => /\ FilesOf(m2) = {}
        /\ \A n \in NotificationsOf(m2) :
             \A a \in Range(slack[n].attachments) :
                isPdf(a.originalName) =>
                  /\ HasContentRecord(KeyOf(m1))
                  /\ a.driveUrl =
                       checkContentDuplicate(contentSheet, KeyOf(m1)).existingUrl

C6_NovelIsRecorded ==
  \A m \in novel \ failed : FilesOf(m) # {} => HasContentRecord(KeyOf(m))

\* C7: if artifact persistence fails during the Novel handling of a message,
\* also for only some of its PDFs, that handling appends no DuplicateRecord.
C7_NoRecordOnFailure ==
  [][\A r \in Runners :
       (run[r].pc = "attach" /\ Current(r) \in failed' \ failed)
         => contentSheet' = contentSheet
    ]_vars

\* C8: every message that passed the message check and was handed to
\* processMessage (its subject matching a pattern) has a ProcessingRecord
\* once the iteration for it is over, whether its processing succeeded or
\* failed.
C8_AlwaysLogged ==
  \A m \in handed :
     (mailbox[m].matches /\ ~InIteration(m)) => HasProcessingRecord(m)

\* C9: when artifact persistence failed for a message, the records written
\* for it carry status Error, never Success.
C9_FailureRecordedAsError ==
  \A m \in failed :
     /\ \A i \in ProcessingRows(m) : processedSheet[i].status = "Error"
     /\ \A i \in 1..Len(mainSheet) :
          mainSheet[i].messageId = m => mainSheet[i].status # "Success"

\* C10: a message whose artifact persistence failed in one run has been
\* handed to processMessage again by the time the next run has returned.
C10_FailedIsRetried == retryDue \subseteq retried

\* C11: between the runs, every message with a matching subject that has no
\* ProcessingRecord is in a conversation the next run's search returns, so
\* the next run picks it up; also when another message of its conversation
\* was processed.
C11_UnrecordedIsSearched ==
  AllIdle =>
    \A m \in MsgIds :
       (mailbox[m].matches /\ ~HasProcessingRecord(m))
         => mailbox[m].thread \in Range(SearchThreads)

\* C12: when the read of the Processing Ledger throws in the check of a
\* message, the message is skipped for this invocation: the invocation moves
\* to the next message, processMessage is not run, nothing is written or
\* sent for it.
C12_UnreadableLedgerSkips ==
  [][\A r \in Runners :
       CheckMessageLedgerDown(r)
         => /\ run'[r] = NextMessage(run[r])
            /\ UNCHANGED << sheetVars, drive, slack, labeled, handed, entered,
                            novel, duplicate >>
    ]_vars

\* C13: a failure while one message is processed does not end the run: an
\* invocation leaves a message only for the next message of the conversation
\* (or the end of the conversation after its last message), leaves a
\* conversation only for the next one of the search result, returns only
\* after the last; and a message checked without a failure that is
\* unprocessed and matching enters processing in that step.
C13_FailureDoesNotAbort ==
  [][\A r \in Runners :
       /\ (run[r].pc \in {"msg", "attach", "notify", "mark"} /\ run'[r] # run[r])
            => /\ run'[r].queue = run[r].queue
               /\ run'[r].ti = run[r].ti
               /\ run'[r].tmsgs = run[r].tmsgs
               /\ \/ /\ run'[r].mi = run[r].mi
                     /\ run'[r].pc \in {"attach", "notify", "mark"}
                  \/ /\ run'[r].mi = run[r].mi + 1
                     /\ run'[r].pc = "msg"
                  \/ /\ run[r].mi = Len(run[r].tmsgs)
                     /\ run'[r].pc = "label"
       /\ (run[r].pc = "label" /\ run'[r] # run[r])
            => \/ /\ run[r].ti < Len(run[r].queue)
                  /\ run'[r].queue = run[r].queue
                  /\ run'[r].ti = run[r].ti + 1
                  /\ run'[r].pc = "msg" /\ run'[r].mi = 1
                  /\ run'[r].tmsgs = ThreadMsgs(run[r].queue[run[r].ti + 1])
               \/ /\ run[r].ti = Len(run[r].queue)
                  /\ run'[r].pc = "idle"
       /\ ( /\ run[r].pc = "msg" /\ run'[r] # run[r] /\ faults' = faults
            /\ mailbox[Current(r)].matches
            /\ ~HasProcessingRecord(Current(r)) )
            => /\ run'[r].pc \in {"attach", "notify"}
               /\ Current(r) \in entered'
    ]_vars

\* a message's artifact persistence failed in the running invocation, and
\* the invocation has gone on to process another message
C13_Witness ==
  \E r \in Runners :
     /\ run[r].pc = "notify"
     /\ Current(r) \in entered
     /\ \E m \in failed \ run[r].failedBefore : m # Current(r)

\* C14: when invocations overlap, the content of a key is persisted at most
\* once and recorded at most once: the Content Ledger holds at most one row
\* per key and the Drive folder at most one file per attachment of a message.
C14_OverlapPersistsOnce ==
  /\ \A i \in 1..Len(contentSheet) :
        Cardinality(ContentRows(contentSheet[i].contentKey)) <= 1
  /\ \A f, g \in 1..Len(drive) :
        (drive[f].messageId = drive[g].messageId /\ drive[f].index = drive[g].index)
          => f = g

\* C15: when invocations overlap and find the same unprocessed message, the
\* message is processed once: at most one ProcessingRecord is appended for
\* its id and at most one notification is sent for it.
C15_OverlapProcessesOnce ==
  \A m \in MsgIds :
     /\ Cardinality(ProcessingRows(m)) <= 1
     /\ Cardinality(NotificationsOf(m)) <= 1

\* the row a step has appended to the Content Ledger
Appended == contentSheet'[Len(contentSheet')]
AppendsRow == Len(contentSheet') = Len(contentSheet) + 1

\* C16: a second recordContentDuplicate for a content key that has a record
\* leaves the lookup of the key as it was: it retrieves one record, the one
\* written first.
C16_SecondAppendKeepsLookup ==
  [][(AppendsRow /\ HasContentRecord(Appended.contentKey))
       => LET k == Appended.contentKey IN
            /\ checkContentDuplicate(contentSheet', k).isDuplicate
            /\ checkContentDuplicate(contentSheet', k)
                 = checkContentDuplicate(contentSheet, k)
    ]_vars

\* a key was recorded twice, with different URLs, and the lookup gives the
\* URL written first
C16_Witness ==
  \E i, j \in 1..Len(contentSheet) :
     /\ i < j
     /\ contentSheet[i].contentKey = contentSheet[j].contentKey
     /\ contentSheet[i].driveUrl # contentSheet[j].driveUrl
     /\ \A h \in 1..(i-1) : contentSheet[h].contentKey # contentSheet[i].contentKey
     /\ checkContentDuplicate(contentSheet, contentSheet[i].contentKey).existingUrl
          = contentSheet[i].driveUrl

\* C17: while a key has no record its lookup reports not-duplicate; the
\* lookup after recordContentDuplicate(k, url) for such a key reports
\* duplicate with existingUrl = url; and recording k leaves the lookup of
\* every other key as it was.
C17_LookupAfterRecord ==
  [][AppendsRow =>
       \A k \in OpKeys :
          /\ ~HasContentRecord(k)
               => ~checkContentDuplicate(contentSheet, k).isDuplicate
          /\ (Appended.contentKey = k /\ ~HasContentRecord(k))
               => checkContentDuplicate(contentSheet', k)
                    = [isDuplicate |-> TRUE, existingUrl |-> Appended.driveUrl]
          /\ Appended.contentKey # k
               => checkContentDuplicate(contentSheet', k)
                    = checkContentDuplicate(contentSheet, k)
    ]_vars

\* two keys were recorded with different URLs, a third was not: each lookup
\* gives its own URL, the third reports not-duplicate
C17_Witness ==
  \E k1, k2, k3 \in OpKeys :
     /\ Len(contentSheet) = 2
     /\ contentSheet[1].contentKey = k1 /\ contentSheet[2].contentKey = k2
     /\ k1 # k2 /\ k3 \notin {k1, k2}
     /\ contentSheet[1].driveUrl # contentSheet[2].driveUrl
     /\ checkContentDuplicate(contentSheet, k1).existingUrl = contentSheet[1].driveUrl
     /\ checkContentDuplicate(contentSheet, k2).existingUrl = contentSheet[2].driveUrl
     /\ ~checkContentDuplicate(contentSheet, k3).isDuplicate

\* C18: a DuplicateRecord is immutable once written: no step of the
\* processing runs removes or changes a row of the Content Ledger, and the
\* lookup of a recorded key gives the same location after every step.
C18_RecordImmutable ==
  [][/\ Len(contentSheet') >= Len(contentSheet)
     /\ \A i \in 1..Len(contentSheet) :
          /\ contentSheet'[i] = contentSheet[i]
          /\ checkContentDuplicate(contentSheet', contentSheet[i].contentKey)
               = checkContentDuplicate(contentSheet, contentSheet[i].contentKey)
    ]_vars

\* a second key was recorded by a later message after the first key, and
\* the first key's lookup still gives its location
C18_Witness ==
  /\ Len(contentSheet) = 2
  /\ contentSheet[1].contentKey # contentSheet[2].contentKey
  /\ checkContentDuplicate(contentSheet, contentSheet[1].contentKey)
       = [isDuplicate |-> TRUE, existingUrl |-> contentSheet[1].driveUrl]
  /\ \E m \in novel : HasProcessingRecord(m) /\ KeyOf(m) = contentSheet[2].contentKey

\* C19: a message with N distinct recipients has, once its processing is
\* over, exactly N ProcessingRecords, and its content key at most one
\* DuplicateRecord.
C19_RecordPerRecipient ==
  \A m \in MsgIds :
     (HasProcessingRecord(m) /\ ~InIteration(m))
       => /\ Cardinality(ProcessingRows(m)) = mailbox[m].recipients
          /\ Cardinality(ContentRows(KeyOf(m))) <= 1

\* C20: a notification is sent for every message whose processing is logged
\* and not before the logging: a message with a notification has its
\* ProcessingRecord, and a message with a ProcessingRecord has a notification.
C20_NotifiedAfterLogged ==
  \A m \in MsgIds :
     /\ NotificationsOf(m) # {} => HasProcessingRecord(m)
     /\ HasProcessingRecord(m) => NotificationsOf(m) # {}

\* the orderings of a list
PermsOf(s) ==
  { p \in [1..Len(s) -> Range(s)] :
      \E f \in [1..Len(s) -> 1..Len(s)] :
         /\ \A i, j \in 1..Len(s) : f[i] = f[j] => i = j
         /\ \A i \in 1..Len(s) : p[i] = s[f[i]] }

\* a string without its whitespace, in lower case: two strings differ only in
\* letter case or whitespace when this gives the same for both
FoldCaseAndSpace(str) ==
  LET kept == SelectSeq(str, LAMBDA c : c # " ")
  IN [i \in 1..Len(kept) |->
        CASE kept[i] = "A" -> "a" [] kept[i] = "B" -> "b" [] OTHER -> kept[i]]

\* C23: the content key does not depend on the order of the attachment
\* names: the key of a call equals the key of every permutation of its list,
\* sender, date and subject being equal.
C23_KeyIgnoresOrder ==
  keyCall.called =>
    \A p \in PermsOf(keyCall.pdfNames) :
       generateContentDuplicateKeyAt(keyCall.sender, keyCall.date,
                                     keyCall.subject, p, keyCall.now)
         = keyCall.key

\* a key was generated for three names given in descending order
C23_Witness ==
  /\ keyCall.called
  /\ keyCall.pdfNames = <<PdfC, PdfB, PdfA>>
  /\ keyCall.key.hashOf[4] = <<PdfA, PdfB, PdfC>>

\* C24: inputs that differ only in letter case or whitespace of sender and
\* subject have the same content key.
C24_KeyIgnoresCaseAndSpace ==
  keyCall.called =>
    \A sender \in Senders, subject \in Subjects :
       ( /\ FoldCaseAndSpace(sender) = FoldCaseAndSpace(keyCall.sender)
         /\ FoldCaseAndSpace(subject) = FoldCaseAndSpace(keyCall.subject) )
       => generateContentDuplicateKeyAt(sender, keyCall.date, subject,
                                        keyCall.pdfNames, keyCall.now)
            = keyCall.key

\* a key was generated for a sender and a subject with capitals and a blank,
\* of which the input sets hold another spelling
C24_Witness ==
  /\ keyCall.called
  /\ keyCall.sender = <<"A", "@", "B">>
  /\ keyCall.subject = <<"A", " ", "b">>
  /\ \E sender \in Senders, subject \in Subjects :
        /\ sender # keyCall.sender /\ subject # keyCall.subject
        /\ FoldCaseAndSpace(sender) = FoldCaseAndSpace(keyCall.sender)
        /\ FoldCaseAndSpace(subject) = FoldCaseAndSpace(keyCall.subject)

\* C25: inputs equal but for dates that differ by one minute or more have
\* different content keys.
C25_KeyChangesWithMinute ==
  keyCall.called =>
    \A date \in DateInputs :
       (date - keyCall.date >= 60 \/ keyCall.date - date >= 60)
       => generateContentDuplicateKeyAt(keyCall.sender, date, keyCall.subject,
                                        keyCall.pdfNames, keyCall.now)
            # keyCall.key

\* a key was generated for a date of which the date one minute later is an
\* input too
C25_Witness ==
  /\ keyCall.called
  /\ keyCall.date = 59
  /\ keyCall.date + 60 \in DateInputs
  /\ keyCall.key.hashOf[2] = 0

\* C26: generateContentDuplicateKey leaves its arguments unchanged: the
\* caller's list of names is the same, in the same order, after the call.
C26_KeyCallLeavesNames ==
  keyCall.called => keyCall.pdfNamesAfter = keyCall.pdfNames

\* C27: a key returned for an input without a date equals no key returned
\* by an earlier call.
C27_FallbackKeyUnique ==
  (keyCall.called /\ keyCall.date = NoDate) => keyCall.key \notin keyCall.returned

\* the Processing Ledger rows a cleanup with the cutoff keeps
KeptRows(sheet, cutoffDate) ==
  LET Keep(row) == ~(row.processingDate < cutoffDate)
  IN SelectSeq(sheet, Keep)

\* C21: no maintenance operation deletes or changes a Content Ledger entry:
\* the Content Ledger after every step of a maintenance operation equals
\* the Content Ledger before it
C21_MaintenanceKeepsContentLedger == [][contentSheet' = contentSheet]_vars

\* a cleanup of the Processing Ledger has deleted rows, and the Content
\* Ledger holds its two records
C21_Witness ==
  /\ op[1].pc = "done" /\ op[1].kind = "cleanupSheet" /\ op[1].ret >= 1
  /\ Len(contentSheet) = 2

C29_CountWithinCapacity ==
  /\ StoreCount(props) <= PROPERTY_CAPACITY
  /\ \A r \in Runners : ~op[r].error

\* C30: when an eviction in one invocation overlaps the insertion of an
\* entry by another, no error reaches either caller, and once both
\* operations have finished the inserted entry is present in the store
C30_InsertedSurvivesEviction ==
  \A r, q \in Runners :
    ( /\ r # q
      /\ op[r].pc = "done" /\ op[r].kind = "setProperty" /\ op[r].overlapped
      /\ isProcessedMsgKey(op[r].key)
      /\ op[q].pc = "done" /\ op[q].kind = "rotate" /\ op[q].overlapped )
    => /\ ~op[r].error /\ ~op[q].error
       /\ op[r].key \in DOMAIN props.msgs

\* C31: a message whose subject matches no configured pattern receives the
\* Contract_Skipped label when it is first checked (handed to processMessage
\* for the first time, no call failing), so that no later search finds it
C31_MismatchGetsSkipLabel ==
  [][\A m \in 1..Len(mailbox) :
       (m \in handed' /\ m \notin handed /\ ~mailbox[m].matches /\ faults' = faults)
       => m \in skipLabeled']_vars

\* the message of an invocation's current iteration has no PDF attachment
NoPdfInHand(r) ==
  /\ run[r].pc \in {"msg", "attach", "notify", "mark"}
  /\ pdfNamesOf(mailbox[Current(r)].atts) = << >>

\* C33: only PDF attachments are stored: every file of the Drive folder is
\* a PDF, and a message without a PDF attachment causes no Drive file, no
\* Content Ledger lookup (it is handled neither as Novel nor as Duplicate)
\* and no Content Ledger append
C33_OnlyPdfStored ==
  /\ [](/\ \A i \in 1..Len(drive) : isPdf(drive[i].name)
        /\ \A m \in 1..Len(mailbox) :
             pdfNamesOf(mailbox[m].atts) = << >>
             => FilesOf(m) = {} /\ m \notin novel \cup duplicate)
  /\ [][\A r \in Runners :
         (NoPdfInHand(r) /\ run'[r] # run[r])
         => contentSheet' = contentSheet /\ drive' = drive]_vars

\* a message with a text file and a PDF has its PDF stored, and a message
\* with a text file only has been notified
C33_Witness ==
  /\ \E m \in 1..Len(mailbox) :
       /\ mailbox[m].atts = <<TxtX, PdfA>>
       /\ FilesOf(m) # {}
  /\ \E m \in 1..Len(mailbox) :
       /\ mailbox[m].atts = <<TxtX>>
       /\ NotificationsOf(m) # {}

\* C34: once addEmailRecord has added the row of a message id,
\* searchRecordByMessageId returns a record for the id, and the record is a
\* row added for that id
C34_SearchFindsAddedRecord ==
  \A i \in 1..Len(mainSheet) :
     LET found == searchRecordByMessageId(mainSheet, mainSheet[i].messageId)
     IN /\ found # 0
        /\ mainSheet[found].messageId = mainSheet[i].messageId

\* C32: no single run of processEmails processes more than
\* MAX_EMAILS_PER_RUN messages
C32_RunWithinBatchLimit ==
  \A r \in Runners : run[r].processedCount <= MAX_EMAILS_PER_RUN

\* C35: ensureUniqueFilename returns a name that no file of the target
\* folder has, however many files with the requested name and its numbered
\* variants exist
C35_ReturnedNameIsFree ==
  nameCall.called => nameCall.returned \notin nameCall.files

\* C36: across any sequence of runs, also when the write to the Processing
\* Ledger fails, at most one notification is sent per message id
C36_OneNotificationPerMessage ==
  \A m \in 1..Len(mailbox) :
     Cardinality({ i \in 1..Len(slack) : slack[i].messageId = m }) <= 1

\* C37: deleting old ProcessingRecords never leads to an artifact being
\* stored a second time: a message processed again after its record was
\* deleted is handled as Duplicate, so no attachment of a message has two
\* files in Drive
C37_CleanupNeverStoresTwice ==
  \A i, j \in 1..Len(drive) :
     (drive[i].messageId = drive[j].messageId /\ drive[i].index = drive[j].index)
     => i = j

\* the row that the latest attempt for a message added: the last one with
\* its id (0 when there is none)
LastRowOf(m) ==
  IF \E i \in 1..Len(mainSheet) : mainSheet[i].messageId = m
  THEN CHOOSE i \in 1..Len(mainSheet) :
         /\ mainSheet[i].messageId = m
         /\ \A j \in 1..Len(mainSheet) : mainSheet[j].messageId = m => j <= i
  ELSE 0

\* C38: after any sequence of runs, retries of a failed attempt included,
\* the contract list holds at most one row per message id, and the final
\* status of an attempt is written to the row that the attempt added
C38_OneRowPerMessage ==
  /\ \A i, j \in 1..Len(mainSheet) :
        mainSheet[i].messageId = mainSheet[j].messageId => i = j
  /\ \A r \in Runners :
        (run[r].pc = "mark" /\ LastRowOf(Current(r)) # 0)
        => mainSheet[LastRowOf(Current(r))].status = "Success"

\* C39: when processMessage has finished for a message, it has returned a
\* boolean, and the message's row of the contract list has a final status:
\* no row is left in status Processing
C39_ReturnsBooleanRowFinal ==
  \A r \in Runners :
     /\ run[r].returned \in {"none", "true", "false"}
     /\ \A m \in handed :
          (\A q \in Runners : run[q].pc \in {"attach", "notify"} => Current(q) # m)
          => \A i \in 1..Len(mainSheet) :
                mainSheet[i].messageId = m => mainSheet[i].status # "Processing"

\* C40: after createTrigger or checkTriggerHealth has completed without
\* throwing, exactly one processEmails trigger exists, whatever number
\* existed before, and the stored TRIGGER_ID is the id of that trigger
C40_OneTrackedTrigger ==
  triggers.last \in {"createTrigger", "checkTriggerHealth"}
  => /\ triggerCount(triggers) = 1
     /\ triggers.storedId \in triggers.installed
====
